---------------------------- MODULE Spec2Model ----------------------------
(***************************************************************************)
(* A model of kiraum/academie's Datagen (src/dgen/datagen.py) and of its   *)
(* entry point (src/datagen.py).                                           *)
(*                                                                         *)
(* The program is a set of asyncio tasks on one event loop.  A task runs   *)
(* until it awaits something that suspends (asyncio.sleep, an aiohttp      *)
(* request, the backoff sleep of the retry wrapper); the calls made with   *)
(* the blocking `requests` library do not suspend, so the task that makes  *)
(* one keeps the event loop until the response is there.  loop_owner is    *)
(* the task that holds the loop, NoTask when every task is suspended.      *)
(*                                                                         *)
(* Python's None is the empty tuple and a present value x is <<x>>, so     *)
(* that "None", "an empty list" and "a list" stay three different values.  *)
(***************************************************************************)
EXTENDS Integers, Sequences, FiniteSets, TLC

\* ------------------------------------------------------------------ bounds
MaxRs     == 2   \* route servers listed by one discovery response
MaxNeigh  == 2   \* neighbours listed by one neighbour response
MaxFaults == 1   \* transport exceptions the network raises in one run
MaxScripted == 3 \* neighbours of the route server whose answers are scripted
MaxScript == 6   \* requests of one wrapped call whose outcome is scripted
MaxRows == 2     \* rows of a report whose text is parsed back
MaxOutage == 30  \* transport exceptions of a run whose network stays down

\* ------------------------------------------------------- program constants
max_tries   == 5       \* backoff.on_exception(..., max_tries=5)
PRIVATE_ASN == 64567   \* if asn != 64567  (AMS-IX using private ASN)

\* ------------------------------------------------------------- the universe
Ixps     == {"ixp1", "ixp2"}
RsIds    == {"rs1", "rs2"}
Groups   == {"v4", "v6"}
ASNs     == {64500, PRIVATE_ASN}
PUBLIC_ASN == CHOOSE a \in ASNs : a # PRIVATE_ASN
\* as_path values of a route; the origin is the last hop
AsPaths  == {<<PUBLIC_ASN>>, <<PUBLIC_ASN, PRIVATE_ASN>>}

None     == <<>>
Some(x)  == <<x>>
NoTask   == <<>>
MainTask == <<"main">>
Br(i, rs) == <<"br", i, rs>>
En(i, k)  == <<"en", i, k>>
HostTask(i) == <<"host", i>>

Branches == Ixps \X RsIds

\* Sequences over S of length at most n
RECURSIVE SeqsUpTo(_, _)
SeqsUpTo(S, n) ==
    IF n = 0 THEN {<<>>}
    ELSE LET shorter == SeqsUpTo(S, n - 1)
         IN  shorter \cup {Append(s, x) : s \in {t \in shorter : Len(t) = n - 1}, x \in S}

Range(s) == {s[k] : k \in 1..Len(s)}

Min(S) == CHOOSE x \in S : \A y \in S : x <= y

\* list(set(xs)): the distinct elements of xs.  Python leaves the order of a
\* set open; the model lists them in ascending order (no claim reads the order).
RECURSIVE SetToList(_)
SetToList(S) == IF S = {} THEN <<>> ELSE <<Min(S)>> \o SetToList(S \ {Min(S)})

list_set(xs) == SetToList(Range(xs))

\* ------------------------------------------------------- HTTP inputs
\* HTTP statuses a server may answer with, other than 200 and 500
OtherStatuses == {404, 503}

\* data["routeservers"] of GET /api/v1/routeservers
RsBodies == SeqsUpTo([id : RsIds, group : Groups], MaxRs)

\* the body of GET .../neighbors: the list is under "neighbors" or "neighbours"
NeighId(n) == "n" \o ToString(n)
NeighbourLists == {[n \in 1..len |-> NeighId(n)] : len \in 0..MaxNeigh}
NeighbourBodies ==
    {[key |-> k, list |-> l] : k \in {"neighbors", "neighbours"}, l \in NeighbourLists}

\* the body of GET .../routes: imported and filtered routes, each with an as_path
RouteBodies ==
    {[imported |-> <<>>, filtered |-> <<>>],
     [imported |-> <<<<PUBLIC_ASN>>>>, filtered |-> <<>>],
     [imported |-> <<>>, filtered |-> <<<<PUBLIC_ASN, PRIVATE_ASN>>>>],
     [imported |-> <<<<PUBLIC_ASN>>>>, filtered |-> <<<<PUBLIC_ASN, PRIVATE_ASN>>>>]}

\* ------------------------------------------------------------------- state
VARIABLES
    mode,         \* "lg": main awaits alice_host(args.lg); "all": process_all_ixps_concurrently
    proc,         \* "running" | "exited" (SystemExit) | "crashed" (an exception reached asyncio.run)
    exit_cause,   \* None, or Some([ixp, call, exc]) of what ended the process
    loop_owner,   \* the task blocking the event loop in a `requests` call, or NoTask
    faults,       \* transport exceptions raised so far
    all_tries,    \* invocations of process_all_ixps_concurrently so far
    stage,        \* per IXP: where its alice_host invocation stands
    host_tries,   \* per IXP: invocations of alice_host so far
    rs_list,      \* per IXP: rs_list of alice_host, route server id -> None | Some(group label)
    origin_asns,  \* per IXP: the dict origin_asns, a sequence of [group, asns] in insertion order
    branch,       \* per (IXP, route server): the process_route_server task
    all_pc,       \* process_all_ixps_concurrently: "none" | "gathering" | "backoff"
    tasks,        \* per IXP: the get_asn_details tasks, in the order of asn_details_tasks
    text,         \* per IXP: the list text of alice_host, one tuple of fields per line
    report_link,  \* per IXP: None | Some(link) returned by create_report
    report_tries, \* per IXP: invocations of create_report by its wrapper in this alice_host
    files         \* per IXP: the report files written so far, in the order written

pipeline_vars == <<mode, proc, exit_cause, loop_owner, faults, all_tries, stage,
                   host_tries, rs_list, origin_asns, branch, all_pc, tasks, text,
                   report_link, report_tries, files>>

VARIABLES
    script,       \* what the stubbed network answers, when a run fixes it beforehand
    r_method,     \* the wrapped method of a single retried call
    r_pc,         \* that call: "idle" | "call" | "backoff" | "returned" | "raised"
    r_tries,      \* invocations of the method by its wrapper so far
    r_result,     \* None | Some(what the wrapped call returned or raised)
    p_pc,         \* the report round trip: "idle" | "rows" | "text" | "parsed"
    p_rows,       \* the rows get_asn_details formatted, as tuples of fields
    p_text,       \* the report text, a sequence of characters
    p_json        \* what parse_text_to_json returned

retry_vars == <<r_method, r_pc, r_tries, r_result>>
parse_vars == <<p_pc, p_rows, p_text, p_json>>
\* what no step of the pipeline touches
fixed == <<script, retry_vars, parse_vars>>

\* url.replace("https://", "") + " => " + rserver["group"]
GroupLabel(i, g) == i \o " => " \o g

\* ----------------------------------------------------------- dict helpers
DictHas(d, k)  == \E n \in 1..Len(d) : d[n].group = k
DictGet(d, k)  == d[CHOOSE n \in 1..Len(d) : d[n].group = k].asns
\* d[k] = v: an existing key keeps its place, a new key goes last
DictSet(d, k, v) ==
    IF DictHas(d, k)
    THEN [n \in 1..Len(d) |-> IF d[n].group = k THEN [group |-> k, asns |-> v] ELSE d[n]]
    ELSE Append(d, [group |-> k, asns |-> v])

\* ----------------------------------------------------------- RetryMeta
\* a wrapper that gives up one invocation later
on_exception_once_more(exc, tries) ==
    IF exc = "RequestException" /\ tries <= max_tries THEN "retry" ELSE "raise"

\* backoff.on_exception(backoff.expo, RequestException, max_tries=5) around a
\* method that has been invoked `tries` times and raised exc: call it again after
\* the backoff sleep, or let exc through.
on_exception(exc, tries) ==
    IF exc = "RequestException" /\ tries < max_tries THEN "retry" ELSE "raise"

\* ----------------------------------------------------------- a branch
BranchNone ==
    [pc |-> "none", tries |-> 0, neigh_tries |-> 0, neighbours_list |-> None,
     nidx |-> 0, origin_asn_list |-> <<>>, new_asns |-> None,
     neigh_status |-> 0, route_reqs |-> 0, seen_paths |-> {}, neigh_reqs |-> 0]

\* a finished task once gather has returned: its frame is gone, what its
\* alice_routes call returned is remembered
BranchDone(br) == [BranchNone EXCEPT !.pc = "done", !.new_asns = br.new_asns]

\* rs_dict[rserver["id"]] = url_ixp + " => " + rserver["group"], in list order
RECURSIVE rs_dict_of(_, _, _)
rs_dict_of(i, data, acc) ==
    IF data = <<>> THEN acc
    ELSE rs_dict_of(i, Tail(data),
                    [acc EXCEPT ![Head(data).id] = Some(GroupLabel(i, Head(data).group))])

\* an origin taken from the first hop of the path
origin_of_first_hop(as_path) == as_path[1]

\* route["bgp"]["as_path"][-1]
origin_of(as_path) == as_path[Len(as_path)]

\* for route in data["imported"] + data["filtered"]: origin_asn_list.append(...)
extend_origins(origin_asn_list, data) ==
    LET routes == data.imported \o data.filtered
    IN  origin_asn_list \o [n \in 1..Len(routes) |-> origin_of(routes[n])]

\* return list(set(origin_asn_list)) if origin_asn_list else None
routes_result(origin_asn_list) ==
    IF origin_asn_list # <<>> THEN Some(list_set(origin_asn_list)) ELSE None

\* a store that extends the group's list with the new ASNs
store_asns_extend(dict, group, new_asns) ==
    IF new_asns # None /\ new_asns[1] # <<>>
    THEN DictSet(dict, group,
                 (IF DictHas(dict, group) THEN DictGet(dict, group) ELSE <<>>)
                 \o list_set(new_asns[1]))
    ELSE dict

\* a store without the `if new_asns` test
store_asns_always(dict, group, new_asns) ==
    DictSet(dict, group, IF new_asns = None THEN <<>> ELSE list_set(new_asns[1]))

\* if new_asns: origin_asns[group] = list(set(new_asns))
store_asns(dict, group, new_asns) ==
    IF new_asns # None /\ new_asns[1] # <<>>
    THEN DictSet(dict, group, list_set(new_asns[1]))
    ELSE dict

GroupOf(b) == rs_list[b[1]][b[2]][1]

\* process_route_server from the return of alice_routes to its cool-down sleep
returned_from_routes(br, result) ==
    [br EXCEPT !.new_asns = result, !.pc = "cooldown",
               !.neighbours_list = None, !.nidx = 0, !.origin_asn_list = <<>>]

Running == proc = "running"
LoopFree == loop_owner = NoTask

\* ----------------------------------------------------- exceptions
\* The retry wrappers an exception passes on its way out of alice_host, the
\* innermost first.  main awaits alice_host itself (-lg) or through
\* process_all_ixps_concurrently (-a); every method is wrapped by RetryMeta.
HostFrames(i) ==
    <<[name |-> "alice_host", tries |-> host_tries[i]]>>
    \o (IF mode = "all"
        THEN <<[name |-> "process_all_ixps_concurrently", tries |-> all_tries]>>
        ELSE <<>>)

BranchFrames(b) ==
    <<[name |-> "process_route_server", tries |-> branch[b].tries]>> \o HostFrames(b[1])

\* The first wrapper that calls its method again, or "crash" when exc passes
\* them all and ends asyncio.run(main()).
RECURSIVE unwind(_, _)
unwind(exc, frames) ==
    IF frames = <<>> THEN "crash"
    ELSE IF on_exception(exc, Head(frames).tries) = "retry" THEN Head(frames).name
    ELSE unwind(exc, Tail(frames))

\* What an exception of `call` in IXP i does to the run once `target` is known.
Unwound(i, call, exc, target) ==
    /\ proc' = IF target = "crash" THEN "crashed" ELSE proc
    /\ exit_cause' = IF target = "crash"
                     THEN Some([ixp |-> i, call |-> call, exc |-> exc])
                     ELSE exit_cause
    /\ stage' = IF target = "alice_host" THEN [stage EXCEPT ![i] = "host_backoff"]
                ELSE IF target \in {"crash", "process_all_ixps_concurrently"}
                     THEN [stage EXCEPT ![i] = "Failed"]
                ELSE stage
    /\ all_pc' = IF target = "process_all_ixps_concurrently" THEN "backoff" ELSE all_pc

\* a sys.exit(1) that ends the calling task alone
SysExit_task_only(i, call) ==
    /\ exit_cause' = Some([ixp |-> i, call |-> call, exc |-> "SystemExit"])
    /\ UNCHANGED <<proc, stage, all_pc>>

\* sys.exit(1): SystemExit leaves the task and the event loop at once
SysExit(i, call) ==
    /\ proc' = "exited"
    /\ exit_cause' = Some([ixp |-> i, call |-> call, exc |-> "SystemExit"])
    /\ stage' = [stage EXCEPT ![i] = "Failed"]
    /\ UNCHANGED all_pc

\* ----------------------------------------------------- alice_host, discovery
\* alice_host up to its await of alice_rs: origin_asns = {}, text = [], and
\* the GET of /api/v1/routeservers is on its way.
alice_host(i) ==
    /\ Running /\ LoopFree
    /\ stage[i] = "Pending"
    /\ stage' = [stage EXCEPT ![i] = "Discovering"]
    /\ host_tries' = [host_tries EXCEPT ![i] = @ + 1]
    /\ origin_asns' = [origin_asns EXCEPT ![i] = <<>>]
    /\ text' = [text EXCEPT ![i] = <<>>]
    /\ UNCHANGED <<fixed, mode, proc, exit_cause, loop_owner, faults, all_tries, rs_list,
                   branch, all_pc, tasks, report_link, report_tries, files>>

\* The backoff sleep of the wrapper of alice_host is over: alice_host is called
\* again and starts from its first line, with a new origin_asns and text.  The
\* tasks of the call that raised are over (the one task it gathered raised).
alice_host_retry(i) ==
    /\ Running /\ LoopFree
    /\ stage[i] = "host_backoff"
    /\ stage' = [stage EXCEPT ![i] = "Discovering"]
    /\ host_tries' = [host_tries EXCEPT ![i] = @ + 1]
    /\ origin_asns' = [origin_asns EXCEPT ![i] = <<>>]
    /\ text' = [text EXCEPT ![i] = <<>>]
    /\ rs_list' = [rs_list EXCEPT ![i] = [rs \in RsIds |-> None]]
    /\ branch' = [b \in Branches |->
                    IF b[1] = i THEN [BranchNone EXCEPT !.neigh_reqs = branch[b].neigh_reqs]
                    ELSE branch[b]]
    /\ tasks' = [tasks EXCEPT ![i] = <<>>]
    /\ report_tries' = [report_tries EXCEPT ![i] = 0]
    /\ UNCHANGED <<fixed, mode, proc, exit_cause, loop_owner, faults, all_tries, all_pc,
                   report_link, files>>

\* alice_rs got 200: rs_dict, then one process_route_server task per entry
alice_rs_200(i, data) ==
    /\ Running /\ LoopFree
    /\ stage[i] = "Discovering"
    /\ LET rs_dict == rs_dict_of(i, data, [rs \in RsIds |-> None])
         IN  /\ rs_list' = [rs_list EXCEPT ![i] = rs_dict]
             /\ branch' = [b \in Branches |->
                             IF b[1] = i /\ rs_dict[b[2]] # None
                             THEN [BranchNone EXCEPT !.pc = "start",
                                                     !.neigh_reqs = branch[b].neigh_reqs]
                             ELSE branch[b]]
    /\ stage' = [stage EXCEPT ![i] = "PerServerFanout"]
    /\ UNCHANGED <<fixed, mode, proc, exit_cause, loop_owner, faults, all_tries, host_tries,
                   origin_asns, all_pc, tasks, text, report_link, report_tries, files>>

\* alice_rs got another status: print, sys.exit(1)
alice_rs_not_200(i) ==
    /\ Running /\ LoopFree
    /\ stage[i] = "Discovering"
    /\ SysExit(i, "alice_rs")
    /\ UNCHANGED <<fixed, mode, loop_owner, faults, all_tries, host_tries, rs_list,
                   origin_asns, branch, tasks, text, report_link, report_tries, files>>

\* the aiohttp request of alice_rs raised aiohttp.ClientError
alice_rs_client_error(i) ==
    /\ Running /\ LoopFree
    /\ stage[i] = "Discovering"
    /\ Unwound(i, "alice_rs", "ClientError",
               unwind("ClientError",
                      <<[name |-> "alice_rs", tries |-> 1]>> \o HostFrames(i)))
    /\ UNCHANGED <<fixed, mode, loop_owner, faults, all_tries, host_tries, rs_list,
                   origin_asns, branch, tasks, text, report_link, report_tries, files>>

\* ----------------------------------------------------- process_route_server
unchanged_by_branch ==
    UNCHANGED <<fixed, mode, all_tries, host_tries, rs_list, tasks, text, report_link,
                report_tries, files>>

\* the task starts: print, then alice_neighbours sends its blocking GET
process_route_server(b) ==
    /\ Running /\ LoopFree
    /\ branch[b].pc = "start"
    /\ branch' = [branch EXCEPT ![b].pc = "neigh_req", ![b].tries = @ + 1,
                                ![b].neigh_tries = 1, ![b].neigh_reqs = @ + 1]
    /\ loop_owner' = Br(b[1], b[2])
    /\ UNCHANGED <<proc, exit_cause, stage, all_pc, faults, origin_asns>>
    /\ unchanged_by_branch

\* if "neighbors" in data: neigh = "neighbors" else: neigh = "neighbours"
neighbour_ids(data) ==
    LET neigh == IF data.key = "neighbors" THEN "neighbors" ELSE "neighbours"
    IN  IF neigh = data.key THEN data.list ELSE <<>>

\* alice_neighbours got 200; process_route_server goes on into alice_routes, to
\* the sleep before the first neighbour or, with no neighbour, to its end
alice_neighbours_200(b, data) ==
    /\ Running
    /\ loop_owner = Br(b[1], b[2])
    /\ branch[b].pc = "neigh_req"
    /\ LET neighbour_list == neighbour_ids(data)
             br == [branch[b] EXCEPT !.neigh_status = 200]
         IN  IF neighbour_list = <<>>
             THEN /\ branch' = [branch EXCEPT ![b] =
                                  returned_from_routes(br, routes_result(<<>>))]
                  /\ origin_asns' = [origin_asns EXCEPT ![b[1]] =
                                       store_asns(@, GroupOf(b), routes_result(<<>>))]
             ELSE /\ branch' = [branch EXCEPT ![b] =
                                  [br EXCEPT !.neighbours_list = Some(neighbour_list),
                                             !.nidx = 1, !.origin_asn_list = <<>>,
                                             !.pc = "routes_sleep"]]
                  /\ UNCHANGED origin_asns
    /\ loop_owner' = NoTask
    /\ UNCHANGED <<proc, exit_cause, stage, all_pc, faults>>
    /\ unchanged_by_branch

\* alice_neighbours got 500: neighbour_list = None, alice_routes returns None at
\* once, process_route_server stores nothing and sleeps
alice_neighbours_500(b) ==
    /\ Running
    /\ loop_owner = Br(b[1], b[2])
    /\ branch[b].pc = "neigh_req"
    /\ branch' = [branch EXCEPT ![b] =
                    returned_from_routes([@ EXCEPT !.neigh_status = 500], None)]
    /\ origin_asns' = [origin_asns EXCEPT ![b[1]] = store_asns(@, GroupOf(b), None)]
    /\ loop_owner' = NoTask
    /\ UNCHANGED <<proc, exit_cause, stage, all_pc, faults>>
    /\ unchanged_by_branch

\* alice_neighbours got another status: neighbour_list was never assigned, and
\* `return neighbour_list` raises UnboundLocalError
alice_neighbours_other(b, status) ==
    /\ Running
    /\ loop_owner = Br(b[1], b[2])
    /\ branch[b].pc = "neigh_req"
    /\ status \notin {200, 500}
    /\ branch' = [branch EXCEPT ![b].neigh_status = status, ![b].pc = "raised"]
    /\ Unwound(b[1], "alice_neighbours", "UnboundLocalError",
               unwind("UnboundLocalError",
                      <<[name |-> "alice_neighbours", tries |-> branch[b].neigh_tries]>>
                      \o BranchFrames(b)))
    /\ loop_owner' = NoTask
    /\ UNCHANGED <<faults, origin_asns>>
    /\ unchanged_by_branch

\* session.get of alice_neighbours raised a requests RequestException
alice_neighbours_exception(b, budget) ==
    /\ Running
    /\ loop_owner = Br(b[1], b[2])
    /\ branch[b].pc = "neigh_req"
    /\ faults < budget
    /\ faults' = faults + 1
    /\ LET target == unwind("RequestException",
                            <<[name |-> "alice_neighbours",
                               tries |-> branch[b].neigh_tries]>> \o BranchFrames(b))
       IN  /\ branch' = [branch EXCEPT ![b].pc =
                           CASE target = "alice_neighbours" -> "neigh_backoff"
                             [] target = "process_route_server" -> "prs_backoff"
                             [] OTHER -> "raised"]
           /\ Unwound(b[1], "alice_neighbours", "RequestException", target)
    /\ loop_owner' = NoTask
    /\ UNCHANGED origin_asns
    /\ unchanged_by_branch

\* the backoff sleep is over: the wrapper calls alice_neighbours again
alice_neighbours_retry(b) ==
    /\ Running /\ LoopFree
    /\ branch[b].pc = "neigh_backoff"
    /\ branch' = [branch EXCEPT ![b].pc = "neigh_req", ![b].neigh_tries = @ + 1,
                                ![b].neigh_reqs = @ + 1]
    /\ loop_owner' = Br(b[1], b[2])
    /\ UNCHANGED <<proc, exit_cause, stage, all_pc, faults, origin_asns>>
    /\ unchanged_by_branch

\* the backoff sleep is over: the wrapper calls process_route_server again,
\* which sends the neighbours request anew
process_route_server_retry(b) ==
    /\ Running /\ LoopFree
    /\ branch[b].pc = "prs_backoff"
    /\ branch' = [branch EXCEPT ![b].pc = "neigh_req", ![b].tries = @ + 1,
                                ![b].neigh_tries = 1, ![b].neigh_reqs = @ + 1]
    /\ loop_owner' = Br(b[1], b[2])
    /\ UNCHANGED <<proc, exit_cause, stage, all_pc, faults, origin_asns>>
    /\ unchanged_by_branch

\* ----------------------------------------------------- alice_routes
\* an alice_routes that sends the request of the next neighbour without the
\* answer of this one
alice_routes_get_ahead(b) ==
    /\ Running /\ LoopFree
    /\ \/ /\ branch[b].pc = "routes_sleep"
          /\ branch' = [branch EXCEPT ![b].pc = "routes_req", ![b].route_reqs = @ + 1]
       \/ /\ branch[b].pc = "routes_req"
          /\ branch[b].nidx < Len(branch[b].neighbours_list[1])
          /\ branch' = [branch EXCEPT ![b].nidx = @ + 1, ![b].route_reqs = @ + 1]
    /\ UNCHANGED <<proc, exit_cause, stage, all_pc, faults, origin_asns, loop_owner>>
    /\ unchanged_by_branch

\* asyncio.sleep(1) is over: print, and the GET of this neighbour's routes is sent
alice_routes_get(b) ==
    /\ Running /\ LoopFree
    /\ branch[b].pc = "routes_sleep"
    /\ branch' = [branch EXCEPT ![b].pc = "routes_req", ![b].route_reqs = @ + 1]
    /\ UNCHANGED <<proc, exit_cause, stage, all_pc, faults, origin_asns, loop_owner>>
    /\ unchanged_by_branch

\* The neighbour loop after one neighbour: on to the next neighbour's sleep, or
\* out of the loop, where alice_routes returns and process_route_server stores.
next_neighbour(b, origin_asn_list, seen) ==
    LET br == [branch[b] EXCEPT !.origin_asn_list = origin_asn_list,
                                !.seen_paths = @ \cup seen]
    IN  IF br.nidx < Len(br.neighbours_list[1])
        THEN /\ branch' = [branch EXCEPT ![b] =
                             [br EXCEPT !.nidx = @ + 1, !.pc = "routes_sleep"]]
             /\ UNCHANGED origin_asns
        ELSE /\ branch' = [branch EXCEPT ![b] =
                             returned_from_routes(br, routes_result(origin_asn_list))]
             /\ origin_asns' = [origin_asns EXCEPT ![b[1]] =
                                  store_asns(@, GroupOf(b), routes_result(origin_asn_list))]

\* the routes request got 200: the origin of every imported and filtered route
alice_routes_200(b, data) ==
    /\ Running /\ LoopFree
    /\ branch[b].pc = "routes_req"
    /\ next_neighbour(b, extend_origins(branch[b].origin_asn_list, data),
                      Range(data.imported) \cup Range(data.filtered))
    /\ UNCHANGED <<proc, exit_cause, stage, all_pc, faults, loop_owner>>
    /\ unchanged_by_branch

\* a 500 after which the loop goes on to the next neighbour
alice_routes_500_goes_on(b) ==
    /\ Running /\ LoopFree
    /\ branch[b].pc = "routes_req"
    /\ next_neighbour(b, branch[b].origin_asn_list, {})
    /\ UNCHANGED <<proc, exit_cause, stage, all_pc, faults, loop_owner>>
    /\ unchanged_by_branch

\* the routes request got 500: return None
alice_routes_500(b) ==
    /\ Running /\ LoopFree
    /\ branch[b].pc = "routes_req"
    /\ branch' = [branch EXCEPT ![b] = returned_from_routes(@, None)]
    /\ origin_asns' = [origin_asns EXCEPT ![b[1]] = store_asns(@, GroupOf(b), None)]
    /\ UNCHANGED <<proc, exit_cause, stage, all_pc, faults, loop_owner>>
    /\ unchanged_by_branch

\* another status that drops what the neighbours before it gave
alice_routes_other_discards(b) ==
    /\ Running /\ LoopFree
    /\ branch[b].pc = "routes_req"
    /\ next_neighbour(b, <<>>, {})
    /\ UNCHANGED <<proc, exit_cause, stage, all_pc, faults, loop_owner>>
    /\ unchanged_by_branch

\* the routes request got another status: print, next neighbour
alice_routes_other(b) ==
    /\ Running /\ LoopFree
    /\ branch[b].pc = "routes_req"
    /\ next_neighbour(b, branch[b].origin_asn_list, {})
    /\ UNCHANGED <<proc, exit_cause, stage, all_pc, faults, loop_owner>>
    /\ unchanged_by_branch

\* the routes request raised aiohttp.ClientError: print, return None
alice_routes_client_error(b) ==
    /\ Running /\ LoopFree
    /\ branch[b].pc = "routes_req"
    /\ branch' = [branch EXCEPT ![b] = returned_from_routes(@, None)]
    /\ origin_asns' = [origin_asns EXCEPT ![b[1]] = store_asns(@, GroupOf(b), None)]
    /\ UNCHANGED <<proc, exit_cause, stage, all_pc, faults, loop_owner>>
    /\ unchanged_by_branch

\* asyncio.sleep(60) is over: the task ends
cooldown_done(b) ==
    /\ Running /\ LoopFree
    /\ branch[b].pc = "cooldown"
    /\ branch' = [branch EXCEPT ![b].pc = "done"]
    /\ UNCHANGED <<proc, exit_cause, stage, all_pc, faults, origin_asns, loop_owner>>
    /\ unchanged_by_branch

\* ----------------------------------------------------- registry inputs
\* data["data"]["asn"] of the CAIDA AS Rank answer: null, or a record whose
\* values may be null
FullRecord ==
    [rank |-> Some("1"), source |-> Some("RIPE"), country |-> Some([iso |-> Some("DE")])]
CaidaRecords ==
    {FullRecord,
     [rank |-> None, source |-> None, country |-> Some([iso |-> None])],
     [rank |-> Some("1"), source |-> Some("RIPE"), country |-> None]}
\* has_key is whether the answer holds the key the code reads
CaidaBodies ==
    {[has_key |-> FALSE, value |-> None], [has_key |-> TRUE, value |-> None]}
    \cup {[has_key |-> TRUE, value |-> Some(r)] : r \in CaidaRecords}
\* response.json()["data"]["holder"] of the RIPE answer
RipeBodies ==
    {[has_key |-> FALSE, value |-> None]}
    \cup {[has_key |-> TRUE, value |-> v] : v \in {None, Some(""), Some("ACME")}}
\* response.json()["id"] of glot.io
SnippetIds == {"abc"}

\* str(v) in an f-string: None prints as "None"
py_str(v) == IF v = None THEN "None" ELSE v[1]

HEADER == <<"IXP", "ASN", "AS-NAME", "AS Rank", "Source", "Country", "PeeringDB link">>

\* ----------------------------------------------------- get_asn_details
TaskStart(asn, group) ==
    [pc |-> "start", asn |-> asn, group |-> group, details |-> None,
     asn_name |-> None, tries |-> 0, caida_tries |-> 0, ripe_tries |-> 0,
     caida_calls |-> 0, ripe_calls |-> 0, row |-> None]

\* a finished task once gather has returned its row: its frame is gone
TaskDone(t) == [TaskStart(t.asn, t.group) EXCEPT !.pc = "done", !.row = t.row]

\* [(asn, group) for group, asns in origin_asns.items() for asn in asns]
RECURSIVE asn_details_tasks(_)
asn_details_tasks(dict) ==
    IF dict = <<>> THEN <<>>
    ELSE [n \in 1..Len(Head(dict).asns) |-> TaskStart(Head(dict).asns[n], Head(dict).group)]
         \o asn_details_tasks(Tail(dict))

\* the details of the private ASN, without a request
private_details ==
    [rank |-> Some("NA"), source |-> Some("NA"), country |-> Some([iso |-> Some("NL")])]

na_details ==
    [rank |-> Some("NA"), source |-> Some("NA"), country |-> Some([iso |-> Some("NA")])]

\* `if not asn_name: asn_name = "NA"`: None and "" are falsy
name_or_na(asn_name) == IF asn_name = None \/ asn_name = Some("") THEN Some("NA") ELSE asn_name

\* `if not details: details = {...}`
details_or_na(details) == IF details = None THEN na_details ELSE details[1]

\* details['country']['iso'] subscripts None when country is null
format_fails(details) == details_or_na(details).country = None

\* the f-string of get_asn_details, its fields before " ; " joins them
format_row(group, asn, asn_name, details) ==
    LET d == details_or_na(details)
    IN  <<group, ToString(asn), py_str(name_or_na(asn_name)), py_str(d.rank),
          py_str(d.source), py_str(d.country[1].iso),
          "https://www.peeringdb.com/asn/" \o ToString(asn)>>

TaskFrames(i, k) ==
    <<[name |-> "get_asn_details", tries |-> tasks[i][k].tries]>> \o HostFrames(i)

unchanged_by_task ==
    UNCHANGED <<fixed, mode, all_tries, host_tries, rs_list, origin_asns, branch, text,
                report_link, report_tries, files>>

\* a get_asn_details that asks the registries about every ASN
get_asn_details_always(i, k) ==
    /\ Running /\ LoopFree
    /\ stage[i] = "Enriching"
    /\ k \in 1..Len(tasks[i])
    /\ tasks[i][k].pc = "start"
    /\ tasks' = [tasks EXCEPT ![i][k].pc = "caida_req", ![i][k].tries = @ + 1,
                              ![i][k].caida_tries = 1, ![i][k].caida_calls = @ + 1]
    /\ loop_owner' = En(i, k)
    /\ UNCHANGED <<proc, exit_cause, stage, all_pc, faults>>
    /\ UNCHANGED <<fixed, mode, all_tries, host_tries, rs_list, origin_asns, branch, text,
                   report_link, report_tries, files>>

\* the task starts.  The private ASN gets its row at once; any other ASN sends
\* the blocking GET of caida_asn_whois.
get_asn_details(i, k) ==
    /\ Running /\ LoopFree
    /\ stage[i] = "Enriching"
    /\ k \in 1..Len(tasks[i])
    /\ tasks[i][k].pc = "start"
    /\ LET t == tasks[i][k]
       IN  IF t.asn # PRIVATE_ASN
           THEN /\ tasks' = [tasks EXCEPT ![i][k].pc = "caida_req", ![i][k].tries = @ + 1,
                                          ![i][k].caida_tries = 1,
                                          ![i][k].caida_calls = @ + 1]
                /\ loop_owner' = En(i, k)
           ELSE /\ tasks' = [tasks EXCEPT ![i][k] =
                               [t EXCEPT !.pc = "done", !.tries = @ + 1,
                                         !.row = Some(format_row(t.group, t.asn,
                                                       Some("AMS-IX"),
                                                       Some(private_details)))]]
                /\ UNCHANGED loop_owner
    /\ UNCHANGED <<proc, exit_cause, stage, all_pc, faults>>
    /\ unchanged_by_task

\* caida_asn_whois got 200: data["data"]["asn"], or KeyError; then ripe_asn_name
\* sends its blocking GET
caida_asn_whois_200(i, k, data) ==
    /\ Running
    /\ loop_owner = En(i, k)
    /\ tasks[i][k].pc = "caida_req"
    /\   IF data.has_key
         THEN /\ tasks' = [tasks EXCEPT ![i][k].details = data.value,
                                        ![i][k].pc = "ripe_req",
                                        ![i][k].ripe_tries = 1,
                                        ![i][k].ripe_calls = @ + 1]
              /\ UNCHANGED <<proc, exit_cause, stage, all_pc, loop_owner>>
         ELSE /\ tasks' = [tasks EXCEPT ![i][k].pc = "raised"]
              /\ Unwound(i, "caida_asn_whois", "KeyError",
                         unwind("KeyError",
                                <<[name |-> "caida_asn_whois",
                                   tries |-> tasks[i][k].caida_tries]>>
                                \o TaskFrames(i, k)))
              /\ loop_owner' = NoTask
    /\ UNCHANGED faults
    /\ unchanged_by_task

\* caida_asn_whois got another status: print, sys.exit(1)
caida_asn_whois_not_200(i, k) ==
    /\ Running
    /\ loop_owner = En(i, k)
    /\ tasks[i][k].pc = "caida_req"
    /\ SysExit(i, "caida_asn_whois")
    /\ loop_owner' = NoTask
    /\ UNCHANGED <<faults, tasks>>
    /\ unchanged_by_task

\* session.get of caida_asn_whois raised a requests RequestException
caida_asn_whois_exception(i, k, budget) ==
    /\ Running
    /\ loop_owner = En(i, k)
    /\ tasks[i][k].pc = "caida_req"
    /\ faults < budget
    /\ faults' = faults + 1
    /\ LET target == unwind("RequestException",
                            <<[name |-> "caida_asn_whois",
                               tries |-> tasks[i][k].caida_tries]>> \o TaskFrames(i, k))
       IN  /\ tasks' = [tasks EXCEPT ![i][k].pc =
                          CASE target = "caida_asn_whois" -> "caida_backoff"
                            [] target = "get_asn_details" -> "gad_backoff"
                            [] OTHER -> "raised"]
           /\ Unwound(i, "caida_asn_whois", "RequestException", target)
    /\ loop_owner' = NoTask
    /\ unchanged_by_task

\* the backoff sleep is over: the wrapper calls caida_asn_whois again
caida_asn_whois_retry(i, k) ==
    /\ Running /\ LoopFree
    /\ stage[i] = "Enriching"
    /\ k \in 1..Len(tasks[i])
    /\ tasks[i][k].pc = "caida_backoff"
    /\ tasks' = [tasks EXCEPT ![i][k].pc = "caida_req", ![i][k].caida_tries = @ + 1,
                              ![i][k].caida_calls = @ + 1]
    /\ loop_owner' = En(i, k)
    /\ UNCHANGED <<proc, exit_cause, stage, all_pc, faults>>
    /\ unchanged_by_task

\* ripe_asn_name got 200: the holder, or KeyError; then asyncio.sleep(0.5)
ripe_asn_name_200(i, k, data) ==
    /\ Running
    /\ loop_owner = En(i, k)
    /\ tasks[i][k].pc = "ripe_req"
    /\   IF data.has_key
         THEN /\ tasks' = [tasks EXCEPT ![i][k].asn_name = data.value,
                                        ![i][k].pc = "pace"]
              /\ UNCHANGED <<proc, exit_cause, stage, all_pc>>
         ELSE /\ tasks' = [tasks EXCEPT ![i][k].pc = "raised"]
              /\ Unwound(i, "ripe_asn_name", "KeyError",
                         unwind("KeyError",
                                <<[name |-> "ripe_asn_name",
                                   tries |-> tasks[i][k].ripe_tries]>>
                                \o TaskFrames(i, k)))
    /\ loop_owner' = NoTask
    /\ UNCHANGED faults
    /\ unchanged_by_task

\* ripe_asn_name got another status: print, sys.exit(1)
ripe_asn_name_not_200(i, k) ==
    /\ Running
    /\ loop_owner = En(i, k)
    /\ tasks[i][k].pc = "ripe_req"
    /\ SysExit(i, "ripe_asn_name")
    /\ loop_owner' = NoTask
    /\ UNCHANGED <<faults, tasks>>
    /\ unchanged_by_task

\* session.get of ripe_asn_name raised a requests RequestException
ripe_asn_name_exception(i, k, budget) ==
    /\ Running
    /\ loop_owner = En(i, k)
    /\ tasks[i][k].pc = "ripe_req"
    /\ faults < budget
    /\ faults' = faults + 1
    /\ LET target == unwind("RequestException",
                            <<[name |-> "ripe_asn_name",
                               tries |-> tasks[i][k].ripe_tries]>> \o TaskFrames(i, k))
       IN  /\ tasks' = [tasks EXCEPT ![i][k].pc =
                          CASE target = "ripe_asn_name" -> "ripe_backoff"
                            [] target = "get_asn_details" -> "gad_backoff"
                            [] OTHER -> "raised"]
           /\ Unwound(i, "ripe_asn_name", "RequestException", target)
    /\ loop_owner' = NoTask
    /\ unchanged_by_task

\* the backoff sleep is over: the wrapper calls ripe_asn_name again
ripe_asn_name_retry(i, k) ==
    /\ Running /\ LoopFree
    /\ stage[i] = "Enriching"
    /\ k \in 1..Len(tasks[i])
    /\ tasks[i][k].pc = "ripe_backoff"
    /\ tasks' = [tasks EXCEPT ![i][k].pc = "ripe_req", ![i][k].ripe_tries = @ + 1,
                              ![i][k].ripe_calls = @ + 1]
    /\ loop_owner' = En(i, k)
    /\ UNCHANGED <<proc, exit_cause, stage, all_pc, faults>>
    /\ unchanged_by_task

\* the backoff sleep is over: the wrapper calls get_asn_details again, which
\* sends the GET of caida_asn_whois anew
get_asn_details_retry(i, k) ==
    /\ Running /\ LoopFree
    /\ stage[i] = "Enriching"
    /\ k \in 1..Len(tasks[i])
    /\ tasks[i][k].pc = "gad_backoff"
    /\ tasks' = [tasks EXCEPT ![i][k].pc = "caida_req", ![i][k].tries = @ + 1,
                              ![i][k].details = None, ![i][k].asn_name = None,
                              ![i][k].caida_tries = 1, ![i][k].caida_calls = @ + 1]
    /\ loop_owner' = En(i, k)
    /\ UNCHANGED <<proc, exit_cause, stage, all_pc, faults>>
    /\ unchanged_by_task

\* asyncio.sleep(0.5) is over: the "NA" defaults and the row, or TypeError
\* when country is null
get_asn_details_return(i, k) ==
    /\ Running /\ LoopFree
    /\ stage[i] = "Enriching"
    /\ k \in 1..Len(tasks[i])
    /\ tasks[i][k].pc = "pace"
    /\ LET t == tasks[i][k]
       IN  IF format_fails(t.details)
           THEN /\ tasks' = [tasks EXCEPT ![i][k].pc = "raised"]
                /\ Unwound(i, "get_asn_details", "TypeError",
                           unwind("TypeError", TaskFrames(i, k)))
           ELSE /\ tasks' = [tasks EXCEPT ![i][k].pc = "done",
                                          ![i][k].details = None,
                                          ![i][k].asn_name = None,
                                          ![i][k].row =
                                            Some(format_row(t.group, t.asn, t.asn_name,
                                                            t.details))]
                /\ UNCHANGED <<proc, exit_cause, stage, all_pc>>
    /\ UNCHANGED <<faults, loop_owner>>
    /\ unchanged_by_task

\* ----------------------------------------------------- alice_host, the rest
RsOf(i) == {rs \in RsIds : rs_list[i][rs] # None}

\* an alice_host that goes on as soon as one of its branches is done
alice_host_enrich_early(i) ==
    /\ Running /\ LoopFree
    /\ stage[i] = "PerServerFanout"
    /\ \E rs \in RsOf(i) : branch[<<i, rs>>].pc = "done"
    /\ \A rs \in RsOf(i) : branch[<<i, rs>>].pc \in {"start", "cooldown", "done"}
    /\ text' = [text EXCEPT ![i] = Append(@, HEADER)]
    /\ tasks' = [tasks EXCEPT ![i] = asn_details_tasks(origin_asns[i])]
    /\ stage' = [stage EXCEPT ![i] = "Enriching"]
    /\ branch' = [b \in Branches |->
                    IF b[1] = i /\ b[2] \in RsOf(i) THEN BranchDone(branch[b])
                    ELSE branch[b]]
    /\ UNCHANGED <<fixed, mode, proc, exit_cause, loop_owner, faults, all_tries, host_tries,
                   rs_list, origin_asns, all_pc, report_link, report_tries, files>>

\* gather of the process_route_server tasks returned: the header line, and one
\* get_asn_details task per ASN of every group
alice_host_enrich(i) ==
    /\ Running /\ LoopFree
    /\ stage[i] = "PerServerFanout"
    /\ \A rs \in RsOf(i) : branch[<<i, rs>>].pc = "done"
    /\ text' = [text EXCEPT ![i] = Append(@, HEADER)]
    /\ tasks' = [tasks EXCEPT ![i] = asn_details_tasks(origin_asns[i])]
    /\ stage' = [stage EXCEPT ![i] = "Enriching"]
    /\ branch' = [b \in Branches |->
                    IF b[1] = i /\ b[2] \in RsOf(i) THEN BranchDone(branch[b])
                    ELSE branch[b]]
    /\ UNCHANGED <<fixed, mode, proc, exit_cause, loop_owner, faults, all_tries, host_tries,
                   rs_list, origin_asns, all_pc, report_link, report_tries, files>>

\* an alice_host that puts each row into the report twice
alice_host_report_twice(i) ==
    /\ Running /\ LoopFree
    /\ stage[i] = "Enriching"
    /\ \A k \in 1..Len(tasks[i]) : tasks[i][k].pc = "done"
    /\ text' = [text EXCEPT ![i] = @ \o [k \in 1..Len(tasks[i]) |-> tasks[i][k].row[1]]
                                     \o [k \in 1..Len(tasks[i]) |-> tasks[i][k].row[1]]]
    /\ tasks' = [tasks EXCEPT ![i] = [k \in 1..Len(tasks[i]) |-> TaskDone(tasks[i][k])]]
    /\ stage' = [stage EXCEPT ![i] = "Assembling"]
    /\ report_tries' = [report_tries EXCEPT ![i] = 1]
    /\ loop_owner' = HostTask(i)
    /\ UNCHANGED <<fixed, mode, proc, exit_cause, faults, all_tries, host_tries, rs_list,
                   origin_asns, branch, all_pc, report_link, files>>

\* gather of the get_asn_details tasks returned: the rows join text, text is
\* printed and create_report sends its blocking POST
alice_host_report(i) ==
    /\ Running /\ LoopFree
    /\ stage[i] = "Enriching"
    /\ \A k \in 1..Len(tasks[i]) : tasks[i][k].pc = "done"
    /\ text' = [text EXCEPT ![i] = @ \o [k \in 1..Len(tasks[i]) |-> tasks[i][k].row[1]]]
    /\ tasks' = [tasks EXCEPT ![i] = [k \in 1..Len(tasks[i]) |-> TaskDone(tasks[i][k])]]
    /\ stage' = [stage EXCEPT ![i] = "Assembling"]
    /\ report_tries' = [report_tries EXCEPT ![i] = 1]
    /\ loop_owner' = HostTask(i)
    /\ UNCHANGED <<fixed, mode, proc, exit_cause, faults, all_tries, host_tries, rs_list,
                   origin_asns, branch, all_pc, report_link, files>>

unchanged_by_report ==
    UNCHANGED <<fixed, mode, all_tries, host_tries, rs_list, origin_asns, branch, tasks, text>>

\* create_report got 200: the link, printed
create_report_200(i, id) ==
    /\ Running
    /\ loop_owner = HostTask(i)
    /\ stage[i] = "Assembling"
    /\ report_link' = [report_link EXCEPT ![i] = Some("https://glot.io/snippets/" \o id)]
    /\ stage' = [stage EXCEPT ![i] = "WriteTxt"]
    /\ UNCHANGED <<proc, exit_cause, all_pc, faults, loop_owner, report_tries, files>>
    /\ unchanged_by_report

\* a create_report that returns report_url = None for another status
create_report_not_200_returns(i) ==
    /\ Running
    /\ loop_owner = HostTask(i)
    /\ stage[i] = "Assembling"
    /\ stage' = [stage EXCEPT ![i] = "WriteTxt"]
    /\ UNCHANGED <<proc, exit_cause, all_pc, faults, loop_owner, report_link,
                   report_tries, files>>
    /\ unchanged_by_report

\* create_report got another status: print, sys.exit(1)
create_report_not_200(i) ==
    /\ Running
    /\ loop_owner = HostTask(i)
    /\ stage[i] = "Assembling"
    /\ SysExit(i, "create_report")
    /\ loop_owner' = NoTask
    /\ UNCHANGED <<faults, report_link, report_tries, files>>
    /\ unchanged_by_report

\* requests.post of create_report raised a requests RequestException
create_report_exception(i, budget) ==
    /\ Running
    /\ loop_owner = HostTask(i)
    /\ stage[i] = "Assembling"
    /\ faults < budget
    /\ faults' = faults + 1
    /\ LET target == unwind("RequestException",
                            <<[name |-> "create_report", tries |-> report_tries[i]]>>
                            \o HostFrames(i))
       IN  IF target = "create_report"
           THEN /\ stage' = [stage EXCEPT ![i] = "report_backoff"]
                /\ UNCHANGED <<proc, exit_cause, all_pc>>
           ELSE Unwound(i, "create_report", "RequestException", target)
    /\ loop_owner' = NoTask
    /\ UNCHANGED <<report_link, report_tries, files>>
    /\ unchanged_by_report

\* the backoff sleep is over: the wrapper calls create_report again
create_report_retry(i) ==
    /\ Running /\ LoopFree
    /\ stage[i] = "report_backoff"
    /\ stage' = [stage EXCEPT ![i] = "Assembling"]
    /\ report_tries' = [report_tries EXCEPT ![i] = @ + 1]
    /\ loop_owner' = HostTask(i)
    /\ UNCHANGED <<proc, exit_cause, all_pc, faults, report_link, files>>
    /\ unchanged_by_report

\* write_report_to_file(fname, text, as_json=False)
write_report_txt(i) ==
    /\ Running
    /\ loop_owner = HostTask(i)
    /\ stage[i] = "WriteTxt"
    /\ files' = [files EXCEPT ![i] = Append(@, "txt")]
    /\ stage' = [stage EXCEPT ![i] = "WriteJson"]
    /\ UNCHANGED <<proc, exit_cause, all_pc, faults, loop_owner, report_link, report_tries>>
    /\ unchanged_by_report

\* write_report_to_file(fname, text, as_json=True); alice_host returns
write_report_json(i) ==
    /\ Running
    /\ loop_owner = HostTask(i)
    /\ stage[i] = "WriteJson"
    /\ files' = [files EXCEPT ![i] = Append(@, "json")]
    /\ stage' = [stage EXCEPT ![i] = "Done"]
    /\ loop_owner' = NoTask
    /\ UNCHANGED <<proc, exit_cause, all_pc, faults, report_link, report_tries>>
    /\ unchanged_by_report

\* ----------------------------------------------------- main
\* args.lg: main awaits alice_host(args.lg)
main_lg ==
    /\ Running /\ LoopFree
    /\ mode = "lg"
    /\ all_pc = "start"
    /\ all_pc' = "lg"
    /\ stage' = [stage EXCEPT !["ixp1"] = "Pending"]
    /\ UNCHANGED <<fixed, mode, proc, exit_cause, loop_owner, faults, all_tries, host_tries,
                   rs_list, origin_asns, branch, tasks, text, report_link, report_tries, files>>

\* args.all: one alice_host task per IXP of the configuration, gathered
process_all_ixps_concurrently ==
    /\ Running /\ LoopFree
    /\ mode = "all"
    /\ all_pc = "start"
    /\ all_pc' = "gathering"
    /\ all_tries' = all_tries + 1
    /\ stage' = [i \in Ixps |-> "Pending"]
    /\ UNCHANGED <<fixed, mode, proc, exit_cause, loop_owner, faults, host_tries,
                   rs_list, origin_asns, branch, tasks, text, report_link, report_tries, files>>

InitPipeline(m) ==
    /\ mode = m
    /\ proc = "running"
    /\ exit_cause = None
    /\ loop_owner = NoTask
    /\ faults = 0
    /\ all_tries = 0
    /\ all_pc = "start"
    /\ stage = [i \in Ixps |-> "Idle"]
    /\ host_tries = [i \in Ixps |-> 0]
    /\ rs_list = [i \in Ixps |-> [rs \in RsIds |-> None]]
    /\ origin_asns = [i \in Ixps |-> <<>>]
    /\ branch = [b \in Branches |-> BranchNone]
    /\ tasks = [i \in Ixps |-> <<>>]
    /\ text = [i \in Ixps |-> <<>>]
    /\ report_link = [i \in Ixps |-> None]
    /\ report_tries = [i \in Ixps |-> 0]
    /\ files = [i \in Ixps |-> <<>>]

NoRetry ==
    /\ r_method = "none" /\ r_pc = "idle" /\ r_tries = 0 /\ r_result = None

NoParse ==
    /\ p_pc = "idle" /\ p_rows = <<>> /\ p_text = <<>> /\ p_json = <<>>

vars == <<pipeline_vars, fixed>>

\* The answers the network gives in a run: the sets the steps draw from.
Inputs ==
    [rs |-> RsBodies, neigh |-> NeighbourBodies, status |-> OtherStatuses,
     routes |-> RouteBodies,
     caida |-> {d \in CaidaBodies : d.value = None \/ d.value = Some(FullRecord)},
     ripe |-> {d \in RipeBodies : d.value # Some("")},
     id |-> SnippetIds,
     faults |-> MaxFaults]

HostStep(i, in) ==
    \/ alice_host(i)
    \/ \E data \in in.rs : alice_rs_200(i, data)
    \/ alice_rs_not_200(i)
    \/ alice_rs_client_error(i)
    \/ alice_host_enrich(i)
    \/ alice_host_report(i)
    \/ \E id \in in.id : create_report_200(i, id)
    \/ create_report_not_200(i)
    \/ create_report_exception(i, in.faults)
    \/ create_report_retry(i)
    \/ write_report_txt(i)
    \/ write_report_json(i)

BranchStep(b, in) ==
    \/ process_route_server(b)
    \/ \E data \in in.neigh : alice_neighbours_200(b, data)
    \/ alice_neighbours_500(b)
    \/ \E status \in in.status : alice_neighbours_other(b, status)
    \/ alice_neighbours_exception(b, in.faults)
    \/ alice_neighbours_retry(b)
    \/ alice_routes_get(b)
    \/ \E data \in in.routes : alice_routes_200(b, data)
    \/ alice_routes_500(b)
    \/ alice_routes_other(b)
    \/ alice_routes_client_error(b)
    \/ cooldown_done(b)

MaxTasks == Cardinality(Groups) * Cardinality(ASNs)

TaskStep(i, k, in) ==
    \/ get_asn_details(i, k)
    \/ \E data \in in.caida : caida_asn_whois_200(i, k, data)
    \/ caida_asn_whois_not_200(i, k)
    \/ caida_asn_whois_exception(i, k, in.faults)
    \/ caida_asn_whois_retry(i, k)
    \/ \E data \in in.ripe : ripe_asn_name_200(i, k, data)
    \/ ripe_asn_name_not_200(i, k)
    \/ ripe_asn_name_exception(i, k, in.faults)
    \/ ripe_asn_name_retry(i, k)
    \/ get_asn_details_return(i, k)

PipelineStep(in) ==
    \/ \E i \in Ixps : HostStep(i, in)
    \/ \E b \in Branches : BranchStep(b, in)
    \/ \E i \in Ixps, k \in 1..MaxTasks : TaskStep(i, k, in)

Init == InitPipeline("lg") /\ script = <<>> /\ NoRetry /\ NoParse
Next == main_lg \/ PipelineStep(Inputs)
Spec == Init /\ [][Next]_vars

InitAll == InitPipeline("all") /\ script = <<>> /\ NoRetry /\ NoParse
\* With every IXP of the configuration run at once, each IXP answers with at
\* most one route server, one neighbour and one route.
AllInputs ==
    [rs |-> {d \in RsBodies : Len(d) <= 1 /\ \A n \in 1..Len(d) : d[n].id = "rs1"},
     neigh |-> {d \in NeighbourBodies : Len(d.list) = 1 /\ d.key = "neighbors"},
     status |-> {404},
     routes |-> {d \in RouteBodies : Len(d.imported) = 1 /\ d.filtered = <<>>},
     caida |-> {d \in CaidaBodies : d.value = Some(FullRecord)},
     ripe |-> {d \in RipeBodies : d.value = Some("ACME")},
     id |-> SnippetIds,
     faults |-> MaxFaults]
NextAll == process_all_ixps_concurrently \/ PipelineStep(AllInputs)
SpecAll == InitAll /\ [][NextAll]_vars

\* ----------------------------------------------------- a network that stays down
\* One IXP with one route server, one neighbour and one route, and transport
\* exceptions enough for a method, the method that calls it and alice_host to
\* run out of tries one after the other.
FailInputs ==
    [rs |-> {d \in RsBodies : Len(d) = 1 /\ d[1].id = "rs1" /\ d[1].group = "v4"},
     neigh |-> {d \in NeighbourBodies : Len(d.list) = 1 /\ d.key = "neighbors"},
     status |-> {404},
     routes |-> {d \in RouteBodies : Len(d.imported) = 1 /\ d.filtered = <<>>},
     caida |-> {d \in CaidaBodies : d.value = Some(FullRecord)},
     ripe |-> {d \in RipeBodies : d.value = Some("ACME")},
     id |-> SnippetIds,
     faults |-> MaxOutage]

NextFail ==
    \/ main_lg
    \/ PipelineStep(FailInputs)
    \/ \E i \in Ixps : alice_host_retry(i)
    \/ \E b \in Branches : process_route_server_retry(b)
    \/ \E i \in Ixps, k \in 1..MaxTasks : get_asn_details_retry(i, k)

SpecFail == Init /\ [][NextFail]_vars

\* ----------------------------------------------------- registries with nulls
\* One IXP with one route server, one neighbour and one route, whose ASN the
\* registries answer about in every way they can: the record or the holder
\* null, missing, or with null values in it.
NullInputs ==
    [rs |-> {d \in RsBodies : Len(d) = 1 /\ d[1].id = "rs1"},
     neigh |-> {d \in NeighbourBodies : Len(d.list) <= 1 /\ d.key = "neighbors"},
     status |-> {404},
     routes |-> RouteBodies,
     caida |-> CaidaBodies,
     ripe |-> RipeBodies,
     id |-> SnippetIds,
     faults |-> MaxFaults]

NextNulls == main_lg \/ PipelineStep(NullInputs)
SpecNulls == Init /\ [][NextNulls]_vars

\* ----------------------------------------------------- one branch, scripted
\* One process_route_server task whose route server answers as a script fixed
\* beforehand says: the body of the neighbours answer, and the answer to the
\* routes request of each neighbour in turn.
TheBranch == <<"ixp1", "rs1">>

ScriptedBodies ==
    {[imported |-> <<>>, filtered |-> <<>>],
     [imported |-> <<<<PUBLIC_ASN>>>>, filtered |-> <<>>],
     [imported |-> <<>>, filtered |-> <<<<PUBLIC_ASN, PRIVATE_ASN>>>>],
     [imported |-> <<<<PRIVATE_ASN, PUBLIC_ASN>>>>,
      filtered |-> <<<<PUBLIC_ASN, PRIVATE_ASN>>>>]}

\* an answer to a routes request: 200 with a body, 500, another status, or
\* aiohttp.ClientError in place of an answer
RouteAnswers ==
    {[kind |-> "200", data |-> d] : d \in ScriptedBodies}
    \cup {[kind |-> k, data |-> [imported |-> <<>>, filtered |-> <<>>]] :
             k \in {"500", "other", "ClientError"}}

ScriptedNeighbourBodies ==
    {[key |-> "neighbors", list |-> [n \in 1..len |-> NeighId(n)]] : len \in 0..MaxScripted}

\* one routes answer for each neighbour listed
RouteScripts ==
    {sc \in [neigh : ScriptedNeighbourBodies,
             routes : SeqsUpTo(RouteAnswers, MaxScripted)] :
        Len(sc.routes) = Len(sc.neigh.list)}

\* alice_host has discovered rs1 alone and gathers its one task
InitRoutes ==
    /\ script \in RouteScripts
    /\ NoRetry /\ NoParse
    /\ mode = "lg"
    /\ proc = "running"
    /\ exit_cause = None
    /\ loop_owner = NoTask
    /\ faults = 0
    /\ all_tries = 0
    /\ all_pc = "none"
    /\ stage = [i \in Ixps |-> IF i = TheBranch[1] THEN "PerServerFanout" ELSE "Idle"]
    /\ host_tries = [i \in Ixps |-> IF i = TheBranch[1] THEN 1 ELSE 0]
    /\ rs_list = [i \in Ixps |->
                    [rs \in RsIds |-> IF <<i, rs>> = TheBranch
                                      THEN Some(GroupLabel(i, "v4")) ELSE None]]
    /\ origin_asns = [i \in Ixps |-> <<>>]
    /\ branch = [b \in Branches |->
                   IF b = TheBranch THEN [BranchNone EXCEPT !.pc = "start"] ELSE BranchNone]
    /\ tasks = [i \in Ixps |-> <<>>]
    /\ text = [i \in Ixps |-> <<>>]
    /\ report_link = [i \in Ixps |-> None]
    /\ report_tries = [i \in Ixps |-> 0]
    /\ files = [i \in Ixps |-> <<>>]

\* the answer the script holds for the routes request now outstanding
ScriptedAnswer == script.routes[branch[TheBranch].nidx]

NextRoutes ==
    \/ process_route_server(TheBranch)
    \/ alice_neighbours_200(TheBranch, script.neigh)
    \/ alice_routes_get(TheBranch)
    \/ (branch[TheBranch].pc = "routes_req" /\ ScriptedAnswer.kind = "200"
        /\ alice_routes_200(TheBranch, ScriptedAnswer.data))
    \/ (branch[TheBranch].pc = "routes_req" /\ ScriptedAnswer.kind = "500"
        /\ alice_routes_500(TheBranch))
    \/ (branch[TheBranch].pc = "routes_req" /\ ScriptedAnswer.kind = "other"
        /\ alice_routes_other(TheBranch))
    \/ (branch[TheBranch].pc = "routes_req" /\ ScriptedAnswer.kind = "ClientError"
        /\ alice_routes_client_error(TheBranch))
    \/ cooldown_done(TheBranch)

SpecRoutes == InitRoutes /\ [][NextRoutes]_vars

\* ----------------------------------------------------- one wrapped call
\* One call of a method RetryMeta has wrapped, against a transport whose
\* outcomes are fixed beforehand: script[n] is what the n-th request meets.
Methods ==
    {"alice_rs", "alice_neighbours", "alice_routes", "caida_asn_whois", "ripe_asn_name",
     "create_report"}

\* the HTTP client the method sends its request with
client_of(m) == IF m \in {"alice_rs", "alice_routes"} THEN "aiohttp" ELSE "requests"

\* what that client raises when the transport fails
transport_error(m) ==
    IF client_of(m) = "aiohttp" THEN "ClientError" ELSE "RequestException"

\* except aiohttp.ClientError as e: ... return None
caught_inside(m, exc) == m = "alice_routes" /\ exc = "ClientError"

TransportScripts == SeqsUpTo({"ok", "fail"}, MaxScript)

\* a transport whose script has run out answers
outcome(n) == IF n <= Len(script) THEN script[n] ELSE "ok"

InitRetry ==
    /\ InitPipeline("lg")
    /\ NoParse
    /\ script \in TransportScripts
    /\ r_method \in Methods
    /\ r_pc = "call"
    /\ r_tries = 0
    /\ r_result = None

unchanged_by_retry == UNCHANGED <<pipeline_vars, parse_vars, script, r_method>>

\* the wrapper invokes the method, whose request is answered
wrapped_call_answered ==
    /\ r_pc = "call"
    /\ outcome(r_tries + 1) = "ok"
    /\ r_tries' = r_tries + 1
    /\ r_pc' = "returned"
    /\ r_result' = Some("success")
    /\ unchanged_by_retry

\* the wrapper invokes the method, whose transport fails: the method handles
\* the exception itself, or the wrapper retries it or lets it through
wrapped_call_failed ==
    /\ r_pc = "call"
    /\ outcome(r_tries + 1) = "fail"
    /\ r_tries' = r_tries + 1
    /\ LET exc == transport_error(r_method)
       IN  IF caught_inside(r_method, exc)
           THEN r_pc' = "returned" /\ r_result' = Some("None")
           ELSE IF on_exception(exc, r_tries + 1) = "retry"
                THEN r_pc' = "backoff" /\ r_result' = r_result
                ELSE r_pc' = "raised" /\ r_result' = Some(exc)
    /\ unchanged_by_retry

\* the backoff sleep is over
backoff_done ==
    /\ r_pc = "backoff"
    /\ r_pc' = "call"
    /\ UNCHANGED <<r_tries, r_result>>
    /\ unchanged_by_retry

NextRetry == wrapped_call_answered \/ wrapped_call_failed \/ backoff_done

\* a request is answered or fails, and a backoff sleep ends
SpecRetry == InitRetry /\ [][NextRetry]_vars /\ WF_vars(NextRetry)

\* ----------------------------------------------------- the report as text
\* The report of alice_host as the characters written, and the JSON file
\* write_report_to_file makes of it.  A str is a sequence of characters.
NL == "\n"
Whitespace == {" ", NL}

Max(S) == CHOOSE x \in S : \A y \in S : x >= y

\* sep.join(parts)
RECURSIVE join(_, _)
join(sep, parts) ==
    IF parts = <<>> THEN <<>>
    ELSE IF Len(parts) = 1 THEN parts[1]
    ELSE parts[1] \o sep \o join(sep, Tail(parts))

\* s.split(c) for a separator c of one character
RECURSIVE split(_, _)
split(s, c) ==
    IF \A k \in 1..Len(s) : s[k] # c THEN <<s>>
    ELSE LET k == Min({j \in 1..Len(s) : s[j] = c})
         IN  <<SubSeq(s, 1, k - 1)>> \o split(SubSeq(s, k + 1, Len(s)), c)

\* s.strip()
strip(s) ==
    LET keep == {k \in 1..Len(s) : s[k] \notin Whitespace}
    IN  IF keep = {} THEN <<>> ELSE SubSeq(s, Min(keep), Max(keep))

\* "IXP ; ASN ; AS-NAME ; AS Rank ; Source ; Country ; PeeringDB link"
HeaderText ==
    <<"I", "X", "P", " ", ";", " ", "A", "S", "N", " ", ";", " ", "A", "S", "-", "N",
      "A", "M", "E", " ", ";", " ", "A", "S", " ", "R", "a", "n", "k", " ", ";", " ",
      "S", "o", "u", "r", "c", "e", " ", ";", " ", "C", "o", "u", "n", "t", "r", "y",
      " ", ";", " ", "P", "e", "e", "r", "i", "n", "g", "D", "B", " ", "l", "i", "n",
      "k">>

\* "https://www.peeringdb.com/asn/"
LinkPrefix ==
    <<"h", "t", "t", "p", "s", ":", "/", "/", "w", "w", "w", ".", "p", "e", "e", "r",
      "i", "n", "g", "d", "b", ".", "c", "o", "m", "/", "a", "s", "n", "/">>

\* f"{group} ; {asn} ; {asn_name} ; {details['rank']} ; {details['source']} ;
\*   {details['country']['iso']} " f"; https://www.peeringdb.com/asn/{asn}"
format_line(r) ==
    LET sep == <<" ", ";", " ">>
    IN  r.group \o sep \o r.asn \o sep \o r.asn_name \o sep \o r.rank \o sep
        \o r.source \o sep \o r.iso \o <<" ">> \o <<";", " ">> \o LinkPrefix \o r.asn

\* dict(zip(headers, values)): as many pairs as the shorter list has, a key
\* met again takes the later value
zip_dict(headers, values) ==
    LET n == IF Len(headers) <= Len(values) THEN Len(headers) ELSE Len(values)
    IN  [key \in {headers[k] : k \in 1..n} |->
            values[Max({k \in 1..n : headers[k] = key})]]

\* [x.strip() for x in line.split("|")]
cells(line) == LET parts == split(line, "|") IN [k \in 1..Len(parts) |-> strip(parts[k])]

parse_text_to_json(data_text) ==
    LET lines == split(strip(data_text), NL)
        headers == cells(lines[1])
    IN  [n \in 1..(Len(lines) - 1) |-> zip_dict(headers, cells(lines[n + 1]))]

\* what get_asn_details formats, field by field, none with a ";" in it
ReportRows ==
    [group : {<<"x", " ", "=", ">", " ", "4">>, <<"x", " ", "=", ">", " ", "6">>},
     asn : {<<"6", "4", "5">>, <<"7">>},
     asn_name : {<<"N", "A">>, <<"A", " ", "B">>},
     rank : {<<"1">>},
     source : {<<"R", "I", "P", "E">>},
     iso : {<<"N", "L">>, <<"N", "A">>}]

\* the rows of one report: no (group, ASN) twice
Reports ==
    {rows \in SeqsUpTo(ReportRows, MaxRows) :
        \A m, n \in 1..Len(rows) :
            (rows[m].group = rows[n].group /\ rows[m].asn = rows[n].asn) => m = n}

InitParse ==
    /\ InitPipeline("lg")
    /\ NoRetry
    /\ script = <<>>
    /\ p_pc = "rows"
    /\ p_rows \in Reports
    /\ p_text = <<>>
    /\ p_json = <<>>

\* "\n".join(map(str, text)), text being the header and the rows
report_text ==
    /\ p_pc = "rows"
    /\ p_text' = join(<<NL>>, <<HeaderText>>
                               \o [n \in 1..Len(p_rows) |-> format_line(p_rows[n])])
    /\ p_pc' = "text"
    /\ UNCHANGED <<pipeline_vars, retry_vars, script, p_rows, p_json>>

\* write_report_to_file(fname, text, as_json=True)
report_json ==
    /\ p_pc = "text"
    /\ p_json' = parse_text_to_json(p_text)
    /\ p_pc' = "parsed"
    /\ UNCHANGED <<pipeline_vars, retry_vars, script, p_rows, p_text>>

NextParse == report_text \/ report_json
SpecParse == InitParse /\ [][NextParse]_vars

\* ===================================================================
\* The claims
\* ===================================================================
\* the ASNs stored for a group label in the origin_asns of IXP i
Stored(i, g) == IF DictHas(origin_asns[i], g) THEN Range(DictGet(origin_asns[i], g)) ELSE {}

\* the route servers of IXP i that discovery put in group label g
RsOfGroup(i, g) == {rs \in RsOf(i) : rs_list[i][rs] = Some(g)}

\* the ASNs alice_routes returned to the branch of route server rs
Returned(i, rs) ==
    IF branch[<<i, rs>>].new_asns = None THEN {} ELSE Range(branch[<<i, rs>>].new_asns[1])

Labels(i) == {GroupLabel(i, g) : g \in Groups}

FanoutComplete(i) ==
    /\ stage[i] = "PerServerFanout"
    /\ \A rs \in RsOf(i) : branch[<<i, rs>>].pc = "done"

\* C1: once every process_route_server branch of an alice_host run has
\* completed, the ASNs stored for each group are the union of what alice_routes
\* returned for all route servers of that group.
C1_StoredIsUnion ==
    \A i \in Ixps :
        FanoutComplete(i) =>
            \A g \in Labels(i) :
                Stored(i, g) = UNION {Returned(i, rs) : rs \in RsOfGroup(i, g)}

\* the (group, ASN) of a line of text that is not the header
RowKey(line) == <<line[1], line[2]>>

\* C2: in one alice_host run no two get_asn_details tasks have the same
\* (group, ASN), and no two rows of the report have.
C2_PairOnce ==
    \A i \in Ixps :
        /\ \A k1, k2 \in 1..Len(tasks[i]) :
               (tasks[i][k1].group = tasks[i][k2].group
                /\ tasks[i][k1].asn = tasks[i][k2].asn) => k1 = k2
        /\ \A m, n \in 2..Len(text[i]) :
               RowKey(text[i][m]) = RowKey(text[i][n]) => m = n

\* two route servers of one group both returned the public ASN, and the
\* report written holds a row for it
C2_Witness ==
    \E i \in Ixps, g \in Groups :
        /\ stage[i] = "Done"
        /\ \E rs1, rs2 \in RsOfGroup(i, GroupLabel(i, g)) :
               /\ rs1 # rs2
               /\ PUBLIC_ASN \in Returned(i, rs1) \cap Returned(i, rs2)
        /\ \E m \in 2..Len(text[i]) :
               RowKey(text[i][m]) = <<GroupLabel(i, g), ToString(PUBLIC_ASN)>>

\* C3: with every IXP run at once, route-server discovery of one IXP answering
\* another status than 200 ends that IXP's run only: when the process has
\* ended, every other IXP has reached the end of its own run.
C3_SiblingsFinish ==
    (proc # "running" /\ exit_cause # None /\ exit_cause[1].call = "alice_rs"
     /\ exit_cause[1].exc = "SystemExit")
        => \A j \in Ixps \ {exit_cause[1].ixp} : stage[j] = "Done"

\* the branches of IXP i whose neighbour request was answered 500
Degraded(i) == {rs \in RsOf(i) : branch[<<i, rs>>].neigh_status = 500}

\* a branch answered 500 sent no routes request and was returned None
C4_NoRoutes ==
    \A b \in Branches :
        branch[b].neigh_status = 500 =>
            /\ branch[b].route_reqs = 0
            /\ branch[b].new_asns = None
            /\ branch[b].pc \in {"cooldown", "done"}

\* when all branches are done, what is stored for a group is what one of its
\* route servers that was not answered 500 returned
C4_OthersOnly ==
    \A i \in Ixps :
        FanoutComplete(i) =>
            \A g \in Labels(i) :
                LET others == {rs \in RsOfGroup(i, g) \ Degraded(i) : Returned(i, rs) # {}}
                IN  IF others = {} THEN Stored(i, g) = {}
                    ELSE \E rs \in others : Stored(i, g) = Returned(i, rs)

\* the step in which branch b is answered 500 leaves the process running, the
\* stage, origin_asns and every other branch as they were
C4_Step ==
    \A b \in Branches :
        (branch[b].pc = "neigh_req" /\ branch'[b].neigh_status = 500) =>
            /\ proc' = "running"
            /\ stage' = stage
            /\ origin_asns' = origin_asns
            /\ branch'[b].pc = "cooldown"
            /\ \A c \in Branches \ {b} : branch'[c] = branch[c]

\* C4: neighbour discovery answered 500 makes the branch send no routes request
\* and add no ASN, the run goes on, and the other route servers contribute what
\* they would without it.
C4_Degrades500 == [](C4_NoRoutes /\ C4_OthersOnly) /\ [][C4_Step]_vars

\* all branches are done, one was answered 500 and another of its group stored
\* the ASNs it was returned
C4_Witness ==
    \E i \in Ixps, g \in Groups :
        /\ FanoutComplete(i)
        /\ \E rs1, rs2 \in RsOfGroup(i, GroupLabel(i, g)) :
               /\ rs1 \in Degraded(i)
               /\ rs2 \notin Degraded(i)
               /\ Returned(i, rs2) # {}
               /\ Stored(i, GroupLabel(i, g)) = Returned(i, rs2)

\* C5: neighbour discovery answered a status other than 200 and 500 gives the
\* branch the same as 500 does: no neighbours, no ASN, no error, the run goes on.
C5_OtherStatusDegrades ==
    \A b \in Branches :
        branch[b].neigh_status \notin {0, 200, 500} =>
            /\ proc = "running"
            /\ branch[b].new_asns = None
            /\ branch[b].pc \in {"cooldown", "done"}

\* C7: get_asn_details of the private ASN calls neither registry and returns
\* the fixed row; of any other ASN it calls both registries before it returns.
C7_PrivateAsn ==
    \A i \in Ixps :
        stage[i] = "Enriching" =>
            \A k \in 1..Len(tasks[i]) :
                LET t == tasks[i][k]
                IN  IF t.asn = PRIVATE_ASN
                    THEN /\ t.caida_calls = 0 /\ t.ripe_calls = 0
                         /\ t.pc \in {"start", "done"}
                         /\ t.pc = "done" =>
                              t.row = Some(<<t.group, "64567", "AMS-IX", "NA", "NA", "NL",
                                             "https://www.peeringdb.com/asn/64567">>)
                    ELSE t.pc = "done" => (t.caida_calls >= 1 /\ t.ripe_calls >= 1)

\* the private ASN has its row in both groups, beside a row of the public ASN
C7_Witness ==
    \E i \in Ixps :
        /\ stage[i] = "Enriching"
        /\ \A g \in Groups :
               \E k \in 1..Len(tasks[i]) :
                   /\ tasks[i][k].asn = PRIVATE_ASN
                   /\ tasks[i][k].group = GroupLabel(i, g)
                   /\ tasks[i][k].pc = "done"
        /\ \E k \in 1..Len(tasks[i]) :
               tasks[i][k].asn # PRIVATE_ASN /\ tasks[i][k].pc = "done"

\* ------------------------------------------------------------------ C6
\* the neighbours the scripted route server listed
ScriptedNeighbours == 1..Len(neighbour_ids(script.neigh))

\* no routes request of the run is answered 500 or fails in transport
NoAbort == \A n \in ScriptedNeighbours : script.routes[n].kind \in {"200", "other"}

\* the last hops of all imported and filtered routes of the neighbours answering 200
LastHops ==
    UNION {{p[Len(p)] : p \in Range(script.routes[n].data.imported)
                               \cup Range(script.routes[n].data.filtered)} :
           n \in {m \in ScriptedNeighbours : script.routes[m].kind = "200"}}

\* C6: over neighbours none of which answers 500 or fails in transport,
\* alice_routes returns the last as_path hops of all imported and filtered
\* routes of the neighbours that answered 200, each once (a neighbour answering
\* another status adds nothing and discards nothing), and None when there is
\* no such hop.
C6_RoutesResult ==
    (NoAbort /\ branch[TheBranch].pc \in {"cooldown", "done"}) =>
        LET result == branch[TheBranch].new_asns
        IN  IF LastHops = {} THEN result = None
            ELSE /\ result # None
                 /\ Range(result[1]) = LastHops
                 /\ Len(result[1]) = Cardinality(LastHops)

\* a neighbour answered another status between two that answered 200 with
\* routes of different origins, and alice_routes returned both origins
C6_Witness ==
    /\ branch[TheBranch].pc = "cooldown"
    /\ NoAbort
    /\ \E m, k, n \in ScriptedNeighbours :
           /\ m < k /\ k < n
           /\ script.routes[k].kind = "other"
           /\ script.routes[m].kind = "200" /\ script.routes[n].kind = "200"
           /\ script.routes[m].data.imported = <<<<PUBLIC_ASN>>>>
           /\ script.routes[n].data.imported = <<>>
           /\ script.routes[n].data.filtered # <<>>
    /\ branch[TheBranch].new_asns # None
    /\ Range(branch[TheBranch].new_asns[1]) = {PUBLIC_ASN, PRIVATE_ASN}

\* ------------------------------------------------------------------ C8
\* the first n requests of the scripted transport fail
FailsFirst(n) == Len(script) >= n /\ \A k \in 1..n : script[k] = "fail"

\* the wrapped call is over
CallOver == r_pc \in {"returned", "raised"}

\* of a call whose transport raises the RequestException the wrapper retries on
C8_Counts ==
    client_of(r_method) = "requests" =>
        /\ r_tries <= max_tries
        /\ (FailsFirst(max_tries - 1) /\ outcome(max_tries) = "ok" /\ CallOver) =>
               (r_pc = "returned" /\ r_tries = max_tries /\ r_result = Some("success"))
        /\ (FailsFirst(max_tries) /\ CallOver) =>
               (r_pc = "raised" /\ r_tries = max_tries
                /\ r_result = Some("RequestException"))

C9_UniformRetry ==
    \A m \in Methods :
        (r_method = m /\ CallOver /\ r_result # Some("success")) => r_tries = max_tries

\* ------------------------------------------------------------------ C10
\* the seven field names of the header, by the ";" that delimits it
FieldNames ==
    LET parts == split(HeaderText, ";") IN [k \in 1..Len(parts) |-> strip(parts[k])]

\* C10: parse_text_to_json of the report text gives one record per row, each
\* with the seven fields the header names, and the (group, asn, asnName, rank,
\* source, countryIso) of the records are those of the rows formatted.
C10_RoundTrip ==
    p_pc = "parsed" =>
        /\ Len(p_json) = Len(p_rows)
        /\ \A n \in 1..Len(p_json) : DOMAIN p_json[n] = Range(FieldNames)
        /\ {<<p_json[n][FieldNames[1]], p_json[n][FieldNames[2]], p_json[n][FieldNames[3]],
               p_json[n][FieldNames[4]], p_json[n][FieldNames[5]], p_json[n][FieldNames[6]]>> :
                n \in 1..Len(p_json)}
           = {<<p_rows[n].group, p_rows[n].asn, p_rows[n].asn_name, p_rows[n].rank,
                p_rows[n].source, p_rows[n].iso>> : n \in 1..Len(p_rows)}

\* ------------------------------------------------------------------ C11
RegistryCalls == {"caida_asn_whois", "ripe_asn_name"}

\* C11: when a registry call of an enrichment task is answered another status
\* than 200, or 200 without the key read, the run ends there: the failure is
\* SystemExit or the KeyError itself (no "NA" row is made of it), the report
\* holds no row, no link was created and no file written.
C11_RegistryFailureAborts ==
    \A i \in Ixps :
        (exit_cause # None /\ exit_cause[1].ixp = i
         /\ exit_cause[1].call \in RegistryCalls) =>
            /\ proc # "running"
            /\ exit_cause[1].exc \in {"SystemExit", "KeyError"}
            /\ stage[i] = "Failed"
            /\ text[i] = <<HEADER>>
            /\ report_link[i] = None
            /\ files[i] = <<>>
            /\ exit_cause[1].exc = "KeyError" =>
                   /\ proc = "crashed"
                   /\ \E k \in 1..Len(tasks[i]) :
                          tasks[i][k].pc = "raised" /\ tasks[i][k].row = None

\* the name registry answered another status than 200 when another task of the
\* run had its row already
C11_Witness ==
    /\ proc = "exited"
    /\ exit_cause # None
    /\ exit_cause[1].call = "ripe_asn_name"
    /\ \E k \in 1..Len(tasks[exit_cause[1].ixp]) :
           /\ tasks[exit_cause[1].ixp][k].pc = "done"
           /\ tasks[exit_cause[1].ixp][k].asn # PRIVATE_ASN

\* ------------------------------------------------------------------ C12
\* how far the run of an IXP has come; a run that failed, or whose alice_host
\* raised and waits to be called again, is past every stage
StageRank(st) ==
    CASE st \in {"Idle", "Pending"} -> 0
      [] st = "Discovering" -> 1
      [] st = "PerServerFanout" -> 2
      [] st = "Enriching" -> 3
      [] st \in {"Assembling", "report_backoff", "WriteTxt", "WriteJson"} -> 4
      [] st = "Done" -> 5
      [] OTHER -> 6

\* C12: whatever fails and however often, no step takes the run of an IXP
\* back to a stage it has left, and the route servers of an IXP are
\* discovered once.
C12_ForwardOnly ==
    [][\A i \in Ixps :
          /\ StageRank(stage'[i]) >= StageRank(stage[i])
          /\ host_tries'[i] <= 1]_vars

\* ------------------------------------------------------------------ C13
\* C13: the neighbours request of a route server and the rank lookup of a
\* (group, ASN) are each sent at most 5 times in a run, through however many
\* retrying methods they are reached.
C13_FiveAttemptsInAll ==
    /\ \A b \in Branches : branch[b].neigh_reqs <= max_tries
    /\ \A i \in Ixps : \A k \in 1..Len(tasks[i]) : tasks[i][k].caida_calls <= max_tries

\* ------------------------------------------------------------------ C14
\* the neighbours whose routes request is answered 500 or fails in transport
Aborts == {n \in ScriptedNeighbours : script.routes[n].kind \in {"500", "ClientError"}}

\* with such a neighbour, no request goes to a later one, and the branch ends
\* with None and without an entry in origin_asns
C14_StopsThere ==
    Aborts # {} =>
        /\ branch[TheBranch].route_reqs <= Min(Aborts)
        /\ branch[TheBranch].pc \in {"cooldown", "done"} =>
               /\ branch[TheBranch].route_reqs = Min(Aborts)
               /\ branch[TheBranch].new_asns = None
               /\ origin_asns[TheBranch[1]] = <<>>

\* the step that takes the answer of that neighbour ends alice_routes with
\* None and leaves origin_asns as it was
C14_Step ==
    (branch[TheBranch].pc = "routes_req" /\ branch[TheBranch].nidx \in Aborts) =>
        /\ branch'[TheBranch].pc = "cooldown"
        /\ branch'[TheBranch].new_asns = None
        /\ origin_asns' = origin_asns

\* C14: when a neighbour answers 500 or its request fails in transport,
\* alice_routes stops at that neighbour: no later neighbour is asked, what the
\* earlier ones gave is dropped, the result is None and the branch leaves the
\* group's entry in origin_asns alone.
C14_AbortsEarly == []C14_StopsThere /\ [][C14_Step]_vars

\* the first of three neighbours gave a route, the second failed in transport,
\* the third was never asked
C14_Witness ==
    /\ Cardinality(ScriptedNeighbours) = 3
    /\ script.routes[1].kind = "200"
    /\ script.routes[1].data.imported # <<>>
    /\ script.routes[2].kind = "ClientError"
    /\ branch[TheBranch].pc = "cooldown"
    /\ branch[TheBranch].route_reqs = 2
    /\ branch[TheBranch].new_asns = None

\* ------------------------------------------------------------------ C15
\* while an IXP has enrichment tasks, or is past its fan-out, every branch of
\* it is done
C15_BranchesDone ==
    \A i \in Ixps :
        (tasks[i] # <<>> \/ StageRank(stage[i]) \in 3..5) =>
            \A rs \in RsOf(i) : branch[<<i, rs>>].pc = "done"

\* enrichment begins in a state where every branch is done, and a branch
\* becomes done by the end of its cool-down sleep alone
C15_Step ==
    /\ \A i \in Ixps :
           (stage[i] # "Enriching" /\ stage'[i] = "Enriching") =>
               \A rs \in RsOf(i) : branch[<<i, rs>>].pc = "done"
    /\ \A b \in Branches :
           (branch[b].pc # "done" /\ branch'[b].pc = "done") => branch[b].pc = "cooldown"
    /\ \A b \in Branches :
           (branch[b].pc \in {"neigh_req", "routes_req"}
            /\ branch'[b].pc \notin {"neigh_req", "routes_req", "routes_sleep",
                                     "neigh_backoff", "prs_backoff", "raised"}) =>
               branch'[b].pc = "cooldown"

\* C15: no get_asn_details task of a run exists before every
\* process_route_server task of the run has ended, and such a task ends only
\* after its asyncio.sleep(60), which follows a discovery that gave nothing
\* as it follows one that gave ASNs.
C15_EnrichAfterCooldown == []C15_BranchesDone /\ [][C15_Step]_vars

\* a task is under way after two branches, one of which was returned None
C15_Witness ==
    \E i \in Ixps :
        /\ stage[i] = "Enriching"
        /\ \E k \in 1..Len(tasks[i]) : tasks[i][k].pc = "caida_req"
        /\ \E rs1, rs2 \in RsOf(i) :
               /\ branch[<<i, rs1>>].new_asns = None
               /\ branch[<<i, rs2>>].new_asns # None

\* ------------------------------------------------------------------ C16
\* the rows get_asn_details has returned
RowsMade ==
    UNION {{tasks[i][k].row[1] : k \in {n \in 1..Len(tasks[i]) : tasks[i][n].row # None}} :
           i \in Ixps}

\* C16: whatever the registries answer with 200, nulls included, every row has
\* a value in AS-NAME, AS Rank, Source and Country that is not the print of a
\* null, and the formatting of a row does not fail.
C16_NoNullInRows ==
    /\ \A row \in RowsMade : \A f \in 3..6 : row[f] # "None"
    /\ ~(exit_cause # None /\ exit_cause[1].call = "get_asn_details")

\* ------------------------------------------------------------------ C17
\* C17: a request that is outstanding holds no other task up: while a branch
\* waits for the answer to its neighbours request, a branch of the same run
\* that has not started can start, and while an enrichment task waits for the
\* answer of the rank registry, a task of the same run that has not started
\* can start.
C17_RequestsDoNotBlock ==
    /\ \A b, c \in Branches :
           (Running /\ b # c /\ b[1] = c[1]
            /\ branch[b].pc = "neigh_req" /\ branch[c].pc = "start") =>
               ENABLED process_route_server(c)
    /\ \A i \in Ixps : \A k, j \in 1..Len(tasks[i]) :
           (Running /\ k # j /\ stage[i] = "Enriching"
            /\ tasks[i][k].pc = "caida_req" /\ tasks[i][j].pc = "start") =>
               ENABLED get_asn_details(i, j)

\* ------------------------------------------------------------------ C18
\* the requests a branch has sent are those of the neighbours up to the one
\* it is at: all of them answered but the one outstanding
C18_OneAtATime ==
    \A b \in Branches :
        /\ branch[b].pc = "routes_req" =>
               /\ branch[b].nidx \in 1..Len(branch[b].neighbours_list[1])
               /\ branch[b].route_reqs = branch[b].nidx
        /\ branch[b].pc = "routes_sleep" =>
               /\ branch[b].nidx \in 1..Len(branch[b].neighbours_list[1])
               /\ branch[b].route_reqs = branch[b].nidx - 1

\* a request is sent after the sleep that follows the answer before it, for
\* the neighbour next in the list
C18_Step ==
    \A b \in Branches :
        branch'[b].route_reqs > branch[b].route_reqs =>
            /\ branch[b].pc = "routes_sleep"
            /\ branch'[b].pc = "routes_req"
            /\ branch'[b].nidx = branch[b].nidx
            /\ branch'[b].route_reqs = branch[b].nidx

\* C18: a branch has at most one routes request outstanding, sends them in
\* the order of the neighbour list, and sends the next only when the answer
\* to the one before has been taken in.
C18_SequentialRoutes == []C18_OneAtATime /\ [][C18_Step]_vars

\* two branches of one IXP each wait for the answer to a routes request, one
\* of them to that of its second neighbour
C18_Witness ==
    \E b, c \in Branches :
        /\ b # c /\ b[1] = c[1]
        /\ branch[b].pc = "routes_req" /\ branch[c].pc = "routes_req"
        /\ branch[b].nidx = 2

\* ------------------------------------------------------------------ C19
\* the stages in which alice_host hands text to create_report and to
\* write_report_to_file
Reporting == {"Assembling", "report_backoff", "WriteTxt", "WriteJson", "Done"}

\* the number of ASNs in all groups of a dict
RECURSIVE AsnCount(_)
AsnCount(dict) == IF dict = <<>> THEN 0 ELSE Len(Head(dict).asns) + AsnCount(Tail(dict))

\* C19: the report alice_host gives to create_report and writes to the files
\* is the header line followed by the row of each get_asn_details task, one
\* line each and in their order, and the header line alone when origin_asns
\* holds no ASN.
C19_HeaderThenRows ==
    \A i \in Ixps :
        stage[i] \in Reporting =>
            /\ text[i] # <<>>
            /\ text[i][1] = HEADER
            /\ Len(text[i]) = 1 + Len(tasks[i])
            /\ Len(tasks[i]) = AsnCount(origin_asns[i])
            /\ \A k \in 1..Len(tasks[i]) : text[i][k + 1] = tasks[i][k].row[1]
            /\ origin_asns[i] = <<>> => text[i] = <<HEADER>>

\* both files are written of a report with the header and two rows
C19_Witness ==
    \E i \in Ixps :
        /\ stage[i] = "Done"
        /\ files[i] = <<"txt", "json">>
        /\ Len(text[i]) = 3

\* ------------------------------------------------------------------ C20
\* the group labels route-server discovery gave to the route servers of IXP i
DiscoveredLabels(i) == {rs_list[i][rs][1] : rs \in RsOf(i)}

\* the last hops of the routes a branch has been answered with status 200
HopsSeen(b) == {p[Len(p)] : p \in branch[b].seen_paths}

\* the keys of origin_asns are discovered labels, their lists are not empty and
\* hold no ASN twice, and each ASN was returned to a route server of the group
C20_MapSound ==
    \A i \in Ixps :
        \A n \in 1..Len(origin_asns[i]) :
            LET e == origin_asns[i][n]
            IN  /\ e.group \in DiscoveredLabels(i)
                /\ e.asns # <<>>
                /\ \A k1, k2 \in 1..Len(e.asns) : e.asns[k1] = e.asns[k2] => k1 = k2
                /\ Range(e.asns) \subseteq
                       UNION {Returned(i, rs) : rs \in RsOfGroup(i, e.group)}

\* what a running branch has collected and what alice_routes returned to it
\* are last hops of routes it was answered with status 200
C20_BranchSound ==
    \A b \in Branches :
        branch[b].pc # "done" =>
            /\ Range(branch[b].origin_asn_list) \subseteq HopsSeen(b)
            /\ Returned(b[1], b[2]) \subseteq HopsSeen(b)

\* what alice_routes returned to a branch stays as it is once the branch is
\* over
C20_Step ==
    \A b \in Branches :
        (branch[b].pc \in {"cooldown", "done"} /\ branch'[b].pc = "done") =>
            branch'[b].new_asns = branch[b].new_asns

\* every get_asn_details task and every row of the report is of a group and
\* an ASN of origin_asns
C20_RowsSound ==
    \A i \in Ixps :
        /\ \A k \in 1..Len(tasks[i]) : tasks[i][k].asn \in Stored(i, tasks[i][k].group)
        /\ \A m \in 2..Len(text[i]) :
               \E a \in Stored(i, text[i][m][1]) : RowKey(text[i][m]) = <<text[i][m][1], ToString(a)>>

\* C20: all through an alice_host run every key of origin_asns is a group
\* label of route-server discovery and maps to a non-empty list without
\* duplicates, and every (group, ASN) of the report is the last as_path hop of
\* a route returned with status 200 for a neighbour of a route server of that
\* group.
C20_SoundMapAndReport ==
    [](C20_MapSound /\ C20_BranchSound /\ C20_RowsSound) /\ [][C20_Step]_vars

\* a report with rows of two groups, the private ASN among them
C20_Witness ==
    \E i \in Ixps :
        /\ stage[i] \in Reporting
        /\ Len(origin_asns[i]) = 2
        /\ \E m \in 2..Len(text[i]) : text[i][m][2] = ToString(PRIVATE_ASN)

\* ------------------------------------------------------------------ C21
\* every get_asn_details task of IXP i has returned its row
AllRowsIn(i) == \A k \in 1..Len(tasks[i]) : tasks[i][k].pc = "done" /\ tasks[i][k].row # None

\* the run ended in the sys.exit(1) of create_report
ReportRefused ==
    /\ exit_cause # None
    /\ exit_cause[1].call = "create_report"
    /\ exit_cause[1].exc = "SystemExit"

\* from create_report on every task has returned; the files are written txt
\* first and only with a report link; a refused report leaves the process
\* exited with every row in text and no file
C21_Order ==
    \A i \in Ixps :
        /\ stage[i] \in Reporting => AllRowsIn(i)
        /\ files[i] \in {<<>>, <<"txt">>, <<"txt", "json">>}
        /\ files[i] # <<>> => report_link[i] # None
        /\ (ReportRefused /\ exit_cause[1].ixp = i) =>
               /\ proc = "exited"
               /\ stage[i] = "Failed"
               /\ AllRowsIn(i)
               /\ Len(text[i]) = 1 + Len(tasks[i])
               /\ report_link[i] = None
               /\ files[i] = <<>>

\* create_report is called once the gather of the tasks has returned, or again
\* after a backoff; a file is written by the running process that holds the
\* link; a process that is over writes nothing
C21_Step ==
    \A i \in Ixps :
        /\ (stage[i] # "Assembling" /\ stage'[i] = "Assembling") =>
               \/ stage[i] = "Enriching" /\ AllRowsIn(i)
               \/ stage[i] = "report_backoff"
        /\ files'[i] # files[i] => (proc = "running" /\ report_link[i] # None)
        /\ proc # "running" => files'[i] = files[i]

\* C21: alice_host calls create_report only after every get_asn_details task
\* has returned, writes the text file before the JSON file and both only after
\* create_report gave the link; a create_report answered with another status
\* than 200 ends the process with all rows collected and no file written.
C21_AssemblingOrder == []C21_Order /\ [][C21_Step]_vars

\* create_report was refused with the header and two rows in text
C21_Witness ==
    /\ ReportRefused
    /\ proc = "exited"
    /\ Len(text[exit_cause[1].ixp]) = 3
    /\ files[exit_cause[1].ixp] = <<>>

=============================================================================
